---------------------------- MODULE Spec2Model ----------------------------
(***************************************************************************)
(* Model of the stock analytics service: the engine functions of           *)
(* app/custom_logic.py, the CSV readers of app/utils.py and the            *)
(* /procesar-todos/ handler of app/main.py.                                *)
(*                                                                         *)
(* A DataFrame is a sequence of records (its rows, in row order).  A       *)
(* Fecha in a DataFrame is a day ordinal counted from 2024-01-01 (the      *)
(* datetime64 value pd.to_datetime produces for a plain date); a Fecha in  *)
(* an uploaded file or in a JSON output is its ISO text, modelled as the   *)
(* triple <<year, month, day>>.  A Python float is an exact fraction       *)
(* [nan, num, den] in lowest terms, or NaN.  A function that may raise     *)
(* returns [raised, val]: raised is "" when it returned val.               *)
(* Stock rows keep the columns the engine reads (SKU, Producto, Stock,     *)
(* Umbral); the remaining columns are carried through unread.              *)
(***************************************************************************)
EXTENDS Integers, Sequences, FiniteSets, TLC

VARIABLES stock_file, ventas_file, historico_file,
          stock_df, ventas_df, historico_df,
          pc, openai_block, dashboard_block, ret

vars == <<stock_file, ventas_file, historico_file, stock_df, ventas_df,
          historico_df, pc, openai_block, dashboard_block, ret>>

---------------------------------------------------------------------------
\* Sequences and sets

SetMin(S) == CHOOSE x \in S : \A y \in S : x <= y

SetMax(S) == CHOOSE x \in S : \A y \in S : y <= x

RECURSIVE SortedKeys(_)
SortedKeys(S) ==
    IF S = {} THEN <<>>
    ELSE LET m == SetMin(S) IN <<m>> \o SortedKeys(S \ {m})

RECURSIVE SumSeq(_)
SumSeq(s) == IF s = <<>> THEN 0 ELSE Head(s) + SumSeq(Tail(s))

SeqsUpTo(S, n) == UNION {[1..k -> S] : k \in 0..n}

---------------------------------------------------------------------------
\* Python floats: exact fractions and NaN

RECURSIVE GCD(_, _)
GCD(a, b) == IF b = 0 THEN a ELSE GCD(b, a % b)

Abs(x) == IF x < 0 THEN 0 - x ELSE x

NaN == [nan |-> TRUE, num |-> 0, den |-> 1]

Flt(n, d) ==
    LET g == GCD(Abs(n), d)
    IN  [nan |-> FALSE, num |-> n \div g, den |-> d \div g]

FDiv(a, b) ==
    IF a.nan \/ b.nan THEN NaN
    ELSE IF b.num < 0 THEN Flt((0 - a.num) * b.den, a.den * (0 - b.num))
    ELSE Flt(a.num * b.den, a.den * b.num)

FMul(a, b) == IF a.nan \/ b.nan THEN NaN ELSE Flt(a.num * b.num, a.den * b.den)

\* every comparison with NaN is False
FLess(a, b) == ~a.nan /\ ~b.nan /\ a.num * b.den < b.num * a.den

\* bool(x): NaN is truthy, only zero is falsy
Truthy(x) == x.nan \/ x.num # 0

\* round(x, 2): to the nearest hundredth, ties to even; round(nan, 2) is nan
Round2(x) ==
    IF x.nan THEN NaN
    ELSE LET n == 100 * x.num
             q == n \div x.den
             r == n % x.den
             k == IF 2 * r > x.den THEN q + 1
                  ELSE IF 2 * r < x.den THEN q
                  ELSE IF q % 2 = 0 THEN q ELSE q + 1
         IN  Flt(k, 100)

---------------------------------------------------------------------------
\* Dates: Timestamp fields, parsing and formatting

NaT == 0 - 1

IsLeap(y) == (y % 4 = 0 /\ y % 100 # 0) \/ y % 400 = 0

DaysInYear(y) == IF IsLeap(y) THEN 366 ELSE 365

DaysInMonth(y, m) ==
    IF m = 2 THEN (IF IsLeap(y) THEN 29 ELSE 28)
    ELSE IF m \in {4, 6, 9, 11} THEN 30 ELSE 31

RECURSIVE YearFrom(_, _)
YearFrom(y, d) == IF d < DaysInYear(y) THEN y ELSE YearFrom(y + 1, d - DaysInYear(y))

RECURSIVE DayOfYearFrom(_, _)
DayOfYearFrom(y, d) ==
    IF d < DaysInYear(y) THEN d ELSE DayOfYearFrom(y + 1, d - DaysInYear(y))

RECURSIVE MonthFrom(_, _, _)
MonthFrom(y, m, d) ==
    IF d < DaysInMonth(y, m) THEN m ELSE MonthFrom(y, m + 1, d - DaysInMonth(y, m))

RECURSIVE DayFrom(_, _, _)
DayFrom(y, m, d) ==
    IF d < DaysInMonth(y, m) THEN d + 1 ELSE DayFrom(y, m + 1, d - DaysInMonth(y, m))

\* Timestamp.year, Timestamp.month
YearOf(ts) == YearFrom(2024, ts)

MonthOf(ts) == MonthFrom(YearOf(ts), 1, DayOfYearFrom(2024, ts))

\* str(ts.date())
DateStr(ts) ==
    <<YearOf(ts), MonthOf(ts), DayFrom(YearOf(ts), 1, DayOfYearFrom(2024, ts))>>

RECURSIVE DaysBeforeYear(_, _)
DaysBeforeYear(from, y) ==
    IF from >= y THEN 0 ELSE DaysInYear(from) + DaysBeforeYear(from + 1, y)

RECURSIVE DaysBeforeMonth(_, _)
DaysBeforeMonth(y, m) ==
    IF m <= 1 THEN 0 ELSE DaysInMonth(y, m - 1) + DaysBeforeMonth(y, m - 1)

\* pd.to_datetime of an ISO date text
to_datetime(txt) == DaysBeforeYear(2024, txt[1]) + DaysBeforeMonth(txt[1], txt[2]) + txt[3] - 1

\* Series.max() / Series.min() of a datetime column: NaT when it has no rows
FechaMax(df) == IF df = <<>> THEN NaT ELSE SetMax({df[i].Fecha : i \in DOMAIN df})

FechaMin(df) == IF df = <<>> THEN NaT ELSE SetMin({df[i].Fecha : i \in DOMAIN df})

\* (max - min).days + 1: NaT - NaT is NaT, NaT.days is nan, nan + 1 is nan
Dias(ventas) ==
    IF FechaMax(ventas) = NaT \/ FechaMin(ventas) = NaT THEN NaN
    ELSE Flt(FechaMax(ventas) - FechaMin(ventas) + 1, 1)

---------------------------------------------------------------------------
\* DataFrame operations shared by the engine functions

NoRaise(v) == [raised |-> "", val |-> v]

Raise(e) == [raised |-> e, val |-> <<>>]

\* df[df['SKU'] == sku]
RowsOfSku(df, sku) == LET Match(r) == r.SKU = sku IN SelectSeq(df, Match)

SkusOf(df) == {df[i].SKU : i \in DOMAIN df}

UnidadesOf(df) == [i \in DOMAIN df |-> df[i].Unidades_Vendidas]

\* df.groupby('SKU')['Unidades_Vendidas'].sum(): one entry per SKU present
GroupSum(df) == [sku \in SkusOf(df) |-> SumSeq(UnidadesOf(RowsOfSku(df, sku)))]

\* Series.get(sku, 0)
SeriesGet(series, sku) == IF sku \in DOMAIN series THEN series[sku] ELSE 0

\* stock_df[stock_df['SKU'] == sku].iloc[0].to_dict(): the first matching row
\* as a new dict; .iloc[0] on an empty selection raises IndexError
Iloc0(stock, sku) ==
    LET m == RowsOfSku(stock, sku)
    IN  IF m = <<>> THEN Raise("IndexError") ELSE NoRaise(m[1])

\* producto[key] = val on the dict .to_dict() returned
SetItem(producto, key, val) == (key :> val) @@ producto

\* what that item assignment leaves in the frame the dict was taken from:
\* to_dict() copied the row, so the frame keeps its rows
FrameAfterSetItemMutant(stock, skus, key) ==
    [i \in DOMAIN stock |->
        IF stock[i].SKU \in skus THEN SetItem(stock[i], key, 0) ELSE stock[i]]

FrameAfterSetItem(stock, skus, key) == stock

\* str(int(sku))
SkuStr(sku) == <<"0", "1", "2", "3", "4", "5", "6", "7", "8", "9">>[sku + 1]

\* int(k) for a key k = str(int(sku))
SkuOfStr(k) == CHOOSE sku \in 0..9 : SkuStr(sku) = k

\* Series.sort_values(ascending=False): the keys in an order of non-increasing
\* value; the default sort kind is not stable, so any order of equal values
\* may come out
SortValuesDesc(series) ==
    LET K == DOMAIN series
        n == Cardinality(K)
    IN  {p \in [1..n -> K] :
            /\ \A i, j \in 1..n : i # j => p[i] # p[j]
            /\ \A i, j \in 1..n : i < j => series[p[i]] >= series[p[j]]}

\* .head(n), n >= 0
Head_n(s, n) == SubSeq(s, 1, IF n < Len(s) THEN n ELSE Len(s))

---------------------------------------------------------------------------
\* custom_logic.py, bloque openai

productos_bajo_stock_mutant(stock) ==
    LET Low(r) == r.Stock < r.Umbral IN SelectSeq(stock, Low)

productos_bajo_stock(stock) ==
    LET Low(r) == r.Stock <= r.Umbral IN SelectSeq(stock, Low)

media_global_de(ventas) ==
    LET ventas_por_sku == GroupSum(ventas)
        dias == Dias(ventas)
        n == Cardinality(DOMAIN ventas_por_sku)
    IN  IF Truthy(dias) /\ n # 0
        THEN FDiv(Flt(SumSeq(UnidadesOf(ventas)), 1), FMul(Flt(n, 1), dias))
        ELSE Flt(0, 1)

media_diaria_de(ventas, sku) ==
    IF Truthy(Dias(ventas)) THEN FDiv(Flt(GroupSum(ventas)[sku], 1), Dias(ventas))
    ELSE Flt(0, 1)

es_lento_mutant(ventas, sku, umbral) ==
    ~FLess(FMul(umbral, media_global_de(ventas)), media_diaria_de(ventas, sku))

es_lento(ventas, sku, umbral) ==
    FLess(media_diaria_de(ventas, sku), FMul(umbral, media_global_de(ventas)))

\* the loop of productos_rotacion_lenta over ventas_por_sku.items(), in key order
RECURSIVE RotacionLoop(_, _, _, _, _)
RotacionLoop(keys, lentos, ventas, stock, umbral) ==
    IF keys = <<>> THEN NoRaise(lentos)
    ELSE IF es_lento(ventas, Head(keys), umbral)
    THEN LET producto == Iloc0(stock, Head(keys))
         IN  IF producto.raised # "" THEN Raise(producto.raised)
             ELSE RotacionLoop(Tail(keys),
                      Append(lentos, SetItem(producto.val, "media_diaria",
                                             media_diaria_de(ventas, Head(keys)))),
                      ventas, stock, umbral)
    ELSE RotacionLoop(Tail(keys), lentos, ventas, stock, umbral)

productos_rotacion_lenta(ventas, historico, stock, umbral) ==
    RotacionLoop(SortedKeys(DOMAIN GroupSum(ventas)), <<>>, ventas, stock, umbral)

es_muerto_mutant(ventas, sku, umbral_dias) ==
    LET ult_venta == FechaMax(RowsOfSku(ventas, sku))
    IN  ult_venta = NaT \/ FechaMax(ventas) - ult_venta > umbral_dias

es_muerto(ventas, sku, umbral_dias) ==
    LET ult_venta == FechaMax(RowsOfSku(ventas, sku))
    IN  ult_venta = NaT \/ FechaMax(ventas) - ult_venta >= umbral_dias

\* the loop of productos_muertos over stock_df['SKU'], in row order
RECURSIVE MuertosLoop(_, _, _, _, _)
MuertosLoop(i, muertos, ventas, stock, umbral_dias) ==
    IF i > Len(stock) THEN NoRaise(muertos)
    ELSE IF es_muerto(ventas, stock[i].SKU, umbral_dias)
    THEN LET producto == Iloc0(stock, stock[i].SKU)
         IN  IF producto.raised # "" THEN Raise(producto.raised)
             ELSE MuertosLoop(i + 1, Append(muertos, producto.val), ventas, stock,
                              umbral_dias)
    ELSE MuertosLoop(i + 1, muertos, ventas, stock, umbral_dias)

productos_muertos(ventas, stock, umbral_dias) ==
    MuertosLoop(1, <<>>, ventas, stock, umbral_dias)

en_mes_actual_mutant(ventas, r) == MonthOf(r.Fecha) = MonthOf(FechaMax(ventas))

en_mes_actual(ventas, r) ==
    /\ MonthOf(r.Fecha) = MonthOf(FechaMax(ventas))
    /\ YearOf(r.Fecha) = YearOf(FechaMax(ventas))

mes_df_de(ventas) == LET InMes(r) == en_mes_actual(ventas, r) IN SelectSeq(ventas, InMes)

\* the loop of top_n_vendidos_mes over ranking.items()
RECURSIVE TopLoop(_, _, _, _)
TopLoop(ranking, res, totals, stock) ==
    IF ranking = <<>> THEN NoRaise(res)
    ELSE LET prod == Iloc0(stock, Head(ranking))
         IN  IF prod.raised # "" THEN Raise(prod.raised)
             ELSE TopLoop(Tail(ranking),
                      Append(res, SetItem(prod.val, "total_vendido_mes",
                                          totals[Head(ranking)])),
                      totals, stock)

\* every outcome the call can have (one per order sort_values may give)
top_n_vendidos_mes(ventas, stock, n) ==
    IF Len(ventas) = 0 THEN {NoRaise(<<>>)}
    ELSE LET totals == GroupSum(mes_df_de(ventas))
         IN  {TopLoop(Head_n(rk, n), <<>>, totals, stock) : rk \in SortValuesDesc(totals)}

velocidad_de(ventas, sku) ==
    IF Truthy(Dias(ventas))
    THEN Round2(FDiv(Flt(SeriesGet(GroupSum(ventas), sku), 1), Dias(ventas)))
    ELSE Flt(0, 1)

\* a dict comprehension: one entry per distinct key str(int(sku))
estimaciones_velocidad_venta(ventas, stock) ==
    [k \in {SkuStr(sku) : sku \in SkusOf(stock)} |-> velocidad_de(ventas, SkuOfStr(k))]

promedios_unidades_vendidas(ventas) ==
    [k \in {SkuStr(sku) : sku \in DOMAIN GroupSum(ventas)} |->
        velocidad_de(ventas, SkuOfStr(k))]

StockCol(df) == [i \in DOMAIN df |-> df[i].Stock]

metricas_globales(stock, ventas, historico) ==
    LET total_stock == SumSeq(StockCol(stock))
        total_vendido == SumSeq(UnidadesOf(ventas))
        num_productos == Cardinality(SkusOf(stock))
        IsRotura(r) == r.Stock = 0
        IsRepo(r) == r.Reposicion = 1
    IN  [total_stock |-> total_stock,
         total_vendido |-> total_vendido,
         num_productos |-> num_productos,
         num_roturas_detectadas |-> Len(SelectSeq(historico, IsRotura)),
         num_reposiciones_detectadas |-> Len(SelectSeq(historico, IsRepo)),
         media_rotacion_por_producto |->
             IF num_productos # 0 THEN Round2(Flt(total_vendido, num_productos))
             ELSE Flt(0, 1)]

Evento(tipo, row) == [tipo |-> tipo, SKU |-> row.SKU, fecha |-> DateStr(row.Fecha)]

eventos_de_fila_mutant(row) ==
    IF row.Stock = 0 THEN <<Evento("rotura_stock", row)>>
    ELSE IF row.Reposicion = 1 THEN <<Evento("reposicion", row)>>
    ELSE <<>>

\* the body of the loop of eventos_detectados, for one row
eventos_de_fila(row) ==
    (IF row.Stock = 0 THEN <<Evento("rotura_stock", row)>> ELSE <<>>)
    \o (IF row.Reposicion = 1 THEN <<Evento("reposicion", row)>> ELSE <<>>)

RECURSIVE eventos_detectados(_)
eventos_detectados(historico) ==
    IF historico = <<>> THEN <<>>
    ELSE eventos_de_fila(Head(historico)) \o eventos_detectados(Tail(historico))

---------------------------------------------------------------------------
\* custom_logic.py, bloque dashboard

resumen_global_dashboard(stock, ventas, historico) ==
    LET total_productos == Cardinality(SkusOf(stock))
        total_vendido == SumSeq(UnidadesOf(ventas))
    IN  [total_productos |-> total_productos,
         total_vendido |-> total_vendido,
         promedio_rotacion |->
             IF total_productos # 0 THEN Round2(Flt(total_vendido, total_productos))
             ELSE Flt(0, 1)]

\* the loop of top_3_vendidos_dashboard over ranking.items()
RECURSIVE Top3Loop(_, _, _, _)
Top3Loop(ranking, res, totals, stock) ==
    IF ranking = <<>> THEN NoRaise(res)
    ELSE LET prod == Iloc0(stock, Head(ranking))
         IN  IF prod.raised # "" THEN Raise(prod.raised)
             ELSE Top3Loop(Tail(ranking),
                      Append(res, [nombre |-> prod.val.Producto,
                                   sku |-> Head(ranking),
                                   total_vendido |-> totals[Head(ranking)]]),
                      totals, stock)

top_3_vendidos_dashboard(ventas, stock) ==
    LET totals == GroupSum(ventas)
    IN  {Top3Loop(Head_n(rk, 3), <<>>, totals, stock) : rk \in SortValuesDesc(totals)}

\* the empty string
EmptyStr == <<>>

fecha_ultimo_analisis_mutant(ventas, historico) ==
    IF ventas = <<>> THEN EmptyStr
    ELSE DateStr(SetMax({FechaMax(ventas), FechaMax(historico)}))

fecha_ultimo_analisis(ventas, historico) ==
    LET fecha_ventas == IF ventas # <<>> THEN FechaMax(ventas) ELSE NaT
        fecha_hist == IF historico # <<>> THEN FechaMax(historico) ELSE NaT
        fechas == {f \in {fecha_ventas, fecha_hist} : f # NaT}
    IN  IF fechas # {} THEN DateStr(SetMax(fechas)) ELSE EmptyStr

---------------------------------------------------------------------------
\* Bounds of the checked instances

MaxQty == 2
MaxStockRows == 2
MaxVentasRows == 2
MaxHistRows == 2
MaxN == 2

\* productos_muertos(..., umbral_dias = 14)
UmbralDiasDefault == 14

\* 0.5, the default umbral of productos_rotacion_lenta
UmbralDefault == Flt(1, 2)

\* thresholds exactly representable as floats
Umbrales == {Flt(0, 1), Flt(1, 4), Flt(1, 2), Flt(1, 1), Flt(2, 1)}

NoFile == [columns |-> <<>>, rows |-> <<>>]

NoRet == [fn |-> "", out |-> <<>>]

EmptyDict == <<>>

StockRow(sku) == [SKU |-> sku, Producto |-> "a", Stock |-> 1, Umbral |-> 1]

\* Stock tables of the specifications that vary the sales
StockTables == SeqsUpTo({StockRow(sku) : sku \in {1, 2}}, MaxStockRows)

EngineInit ==
    /\ stock_file = NoFile
    /\ ventas_file = NoFile
    /\ historico_file = NoFile
    /\ pc = "engine"
    /\ openai_block = EmptyDict
    /\ dashboard_block = EmptyDict
    /\ ret = NoRet

\* one call per run: the functions keep no state between calls
EngineFrame ==
    /\ pc' = "returned"
    /\ UNCHANGED <<stock_file, ventas_file, historico_file, openai_block,
                   dashboard_block>>

\* SKUs whose returned record got a key assigned
SkusIn(out) == IF out.raised = "" THEN SkusOf(out.val) ELSE {}

---------------------------------------------------------------------------
\* Calls of the engine functions on tables already read

Call_productos_bajo_stock ==
    /\ pc = "engine"
    /\ ret' = [fn |-> "productos_bajo_stock", out |-> productos_bajo_stock(stock_df)]
    /\ UNCHANGED <<stock_df, ventas_df, historico_df>>
    /\ EngineFrame

Call_productos_rotacion_lenta ==
    /\ pc = "engine"
    /\ \E umbral \in Umbrales :
          LET out == productos_rotacion_lenta(ventas_df, historico_df, stock_df, umbral)
          IN  /\ ret' = [fn |-> "productos_rotacion_lenta", umbral |-> umbral, out |-> out]
              /\ stock_df' = FrameAfterSetItem(stock_df, SkusIn(out), "media_diaria")
    /\ UNCHANGED <<ventas_df, historico_df>>
    /\ EngineFrame

Call_productos_muertos ==
    /\ pc = "engine"
    /\ ret' = [fn |-> "productos_muertos",
               out |-> productos_muertos(ventas_df, stock_df, UmbralDiasDefault)]
    /\ UNCHANGED <<stock_df, ventas_df, historico_df>>
    /\ EngineFrame

Call_top_n_vendidos_mes ==
    /\ pc = "engine"
    /\ \E n \in 0..MaxN :
          \E out \in top_n_vendidos_mes(ventas_df, stock_df, n) :
              /\ ret' = [fn |-> "top_n_vendidos_mes", n |-> n, out |-> out]
              /\ stock_df' = FrameAfterSetItem(stock_df, SkusIn(out), "total_vendido_mes")
    /\ UNCHANGED <<ventas_df, historico_df>>
    /\ EngineFrame

Call_estimaciones_velocidad_venta ==
    /\ pc = "engine"
    /\ ret' = [fn |-> "estimaciones_velocidad_venta",
               out |-> estimaciones_velocidad_venta(ventas_df, stock_df)]
    /\ UNCHANGED <<stock_df, ventas_df, historico_df>>
    /\ EngineFrame

Call_promedios_unidades_vendidas ==
    /\ pc = "engine"
    /\ ret' = [fn |-> "promedios_unidades_vendidas",
               out |-> promedios_unidades_vendidas(ventas_df)]
    /\ UNCHANGED <<stock_df, ventas_df, historico_df>>
    /\ EngineFrame

Call_metricas_globales ==
    /\ pc = "engine"
    /\ ret' = [fn |-> "metricas_globales",
               out |-> metricas_globales(stock_df, ventas_df, historico_df)]
    /\ UNCHANGED <<stock_df, ventas_df, historico_df>>
    /\ EngineFrame

Call_eventos_detectados ==
    /\ pc = "engine"
    /\ ret' = [fn |-> "eventos_detectados", out |-> eventos_detectados(historico_df)]
    /\ UNCHANGED <<stock_df, ventas_df, historico_df>>
    /\ EngineFrame

Call_resumen_global_dashboard ==
    /\ pc = "engine"
    /\ ret' = [fn |-> "resumen_global_dashboard",
               out |-> resumen_global_dashboard(stock_df, ventas_df, historico_df)]
    /\ UNCHANGED <<stock_df, ventas_df, historico_df>>
    /\ EngineFrame

Call_top_3_vendidos_dashboard ==
    /\ pc = "engine"
    /\ \E out \in top_3_vendidos_dashboard(ventas_df, stock_df) :
          ret' = [fn |-> "top_3_vendidos_dashboard", out |-> out]
    /\ UNCHANGED <<stock_df, ventas_df, historico_df>>
    /\ EngineFrame

Call_fecha_ultimo_analisis ==
    /\ pc = "engine"
    /\ ret' = [fn |-> "fecha_ultimo_analisis",
               out |-> fecha_ultimo_analisis(ventas_df, historico_df)]
    /\ UNCHANGED <<stock_df, ventas_df, historico_df>>
    /\ EngineFrame

---------------------------------------------------------------------------
\* SpecStock: the functions of the Stock table alone

StockRowsFull ==
    [SKU : {1, 2}, Producto : {"a"}, Stock : 0..MaxQty, Umbral : 0..MaxQty]

InitStock ==
    /\ stock_df \in SeqsUpTo(StockRowsFull, MaxStockRows)
    /\ ventas_df = <<>>
    /\ historico_df = <<>>
    /\ EngineInit

NextStock == Call_productos_bajo_stock

SpecStock == InitStock /\ [][NextStock]_vars

---------------------------------------------------------------------------
\* SpecMuertos: dead stock, over sales 1, 13, 14 and 15 days apart

FechasMuertos == {0, 1, 14, 15}

VentasRowsMuertos == [Fecha : FechasMuertos, SKU : {1, 2}, Unidades_Vendidas : {1}]

InitMuertos ==
    /\ stock_df \in StockTables
    /\ ventas_df \in SeqsUpTo(VentasRowsMuertos, MaxVentasRows)
    /\ historico_df = <<>>
    /\ EngineInit

NextMuertos == Call_productos_muertos

SpecMuertos == InitMuertos /\ [][NextMuertos]_vars

---------------------------------------------------------------------------
\* SpecVentas: the rates computed from Sales and Stock, over sales on
\* 2024-01-15 and 2024-02-01

FechasVentas == {to_datetime(<<2024, 1, 15>>), to_datetime(<<2024, 2, 1>>)}

VentasRows == [Fecha : FechasVentas, SKU : {1, 2}, Unidades_Vendidas : {0, 1, 3}]

InitVentas ==
    /\ stock_df \in StockTables
    /\ ventas_df \in SeqsUpTo(VentasRows, MaxVentasRows)
    /\ historico_df = <<>>
    /\ EngineInit

NextVentas ==
    \/ Call_productos_rotacion_lenta
    \/ Call_estimaciones_velocidad_venta
    \/ Call_promedios_unidades_vendidas
    \/ Call_resumen_global_dashboard

SpecVentas == InitVentas /\ [][NextVentas]_vars

---------------------------------------------------------------------------
\* SpecTop: the rankings, over sales on 2024-01-15, 2024-02-01 and 2025-02-01

FechasTop == {to_datetime(<<2024, 1, 15>>), to_datetime(<<2024, 2, 1>>),
              to_datetime(<<2025, 2, 1>>)}

VentasRowsTop == [Fecha : FechasTop, SKU : {1, 2}, Unidades_Vendidas : {1, 3}]

InitTop ==
    /\ stock_df \in StockTables
    /\ ventas_df \in SeqsUpTo(VentasRowsTop, MaxVentasRows)
    /\ historico_df = <<>>
    /\ EngineInit

NextTop ==
    \/ Call_top_n_vendidos_mes
    \/ Call_top_3_vendidos_dashboard

SpecTop == InitTop /\ [][NextTop]_vars

---------------------------------------------------------------------------
\* SpecHist: the functions of History, with few or no sales

FechasHist == {to_datetime(<<2024, 1, 1>>), to_datetime(<<2024, 2, 29>>)}

HistRows == [Fecha : FechasHist, SKU : {1}, Stock : {0, 1}, Reposicion : {0, 1}]

VentasRowsHist ==
    [Fecha : {to_datetime(<<2024, 2, 1>>), to_datetime(<<2025, 1, 1>>)},
     SKU : {1}, Unidades_Vendidas : {1}]

InitHist ==
    /\ stock_df \in {<<>>, <<StockRow(1)>>}
    /\ ventas_df \in SeqsUpTo(VentasRowsHist, MaxVentasRows)
    /\ historico_df \in SeqsUpTo(HistRows, MaxHistRows)
    /\ EngineInit

NextHist ==
    \/ Call_eventos_detectados
    \/ Call_metricas_globales
    \/ Call_fecha_ultimo_analisis
    \/ Call_top_n_vendidos_mes
    \/ Call_promedios_unidades_vendidas

SpecHist == InitHist /\ [][NextHist]_vars

---------------------------------------------------------------------------
\* utils.py: the CSV readers

ExpectedStockCols ==
    <<"SKU", "Producto", "Categoría", "Talla", "Color", "Stock", "Precio_Unitario", "Umbral">>

ExpectedVentasCols == <<"Fecha", "SKU", "Unidades_Vendidas">>

ExpectedHistoricoCols ==
    <<"Fecha", "SKU", "Stock", "Unidades_Vendidas", "Reposicion", "Precio_Unitario",
      "Ingresos_Brutos">>

\* df["Fecha"] = pd.to_datetime(df["Fecha"])
ParseFechas(rows) == [i \in DOMAIN rows |-> [rows[i] EXCEPT !.Fecha = to_datetime(@)]]

read_stock_csv(content) ==
    IF content.columns # ExpectedStockCols THEN Raise("ValueError")
    ELSE NoRaise(content.rows)

read_ventas_csv(content) ==
    IF content.columns # ExpectedVentasCols THEN Raise("ValueError")
    ELSE NoRaise(ParseFechas(content.rows))

read_historico_csv(content) ==
    IF content.columns # ExpectedHistoricoCols THEN Raise("ValueError")
    ELSE NoRaise(ParseFechas(content.rows))

---------------------------------------------------------------------------
\* main.py: procesar_todos, one step per statement or per entry of a block

ReadPcs == {"read_stock", "read_ventas", "read_historico"}

Failed(e, at) ==
    /\ pc' = "failed"
    /\ ret' = [fn |-> "procesar_todos", at |-> at, out |-> Raise(e)]

ReadStock ==
    /\ pc = "read_stock"
    /\ LET r == read_stock_csv(stock_file)
       IN  IF r.raised # ""
           THEN Failed(r.raised, pc) /\ UNCHANGED stock_df
           ELSE stock_df' = r.val /\ pc' = "read_ventas" /\ UNCHANGED ret
    /\ UNCHANGED <<stock_file, ventas_file, historico_file, ventas_df, historico_df,
                   openai_block, dashboard_block>>

ReadVentas ==
    /\ pc = "read_ventas"
    /\ LET r == read_ventas_csv(ventas_file)
       IN  IF r.raised # ""
           THEN Failed(r.raised, pc) /\ UNCHANGED ventas_df
           ELSE ventas_df' = r.val /\ pc' = "read_historico" /\ UNCHANGED ret
    /\ UNCHANGED <<stock_file, ventas_file, historico_file, stock_df, historico_df,
                   openai_block, dashboard_block>>

ReadHistorico ==
    /\ pc = "read_historico"
    /\ LET r == read_historico_csv(historico_file)
       IN  IF r.raised # ""
           THEN Failed(r.raised, pc) /\ UNCHANGED historico_df
           ELSE historico_df' = r.val /\ pc' = "productos_bajo_stock" /\ UNCHANGED ret
    /\ UNCHANGED <<stock_file, ventas_file, historico_file, stock_df, ventas_df,
                   openai_block, dashboard_block>>

\* an entry of openai_block: the value returned, or the exception leaves the handler
OpenaiEntry(key, out, next) ==
    IF out.raised # ""
    THEN Failed(out.raised, pc) /\ UNCHANGED openai_block
    ELSE /\ openai_block' = (key :> out.val) @@ openai_block
         /\ pc' = next
         /\ UNCHANGED ret

DashboardEntry(key, out, next) ==
    IF out.raised # ""
    THEN Failed(out.raised, pc) /\ UNCHANGED dashboard_block
    ELSE /\ dashboard_block' = (key :> out.val) @@ dashboard_block
         /\ pc' = next
         /\ UNCHANGED ret

Files == <<stock_file, ventas_file, historico_file>>

Openai_productos_bajo_stock ==
    /\ pc = "productos_bajo_stock"
    /\ OpenaiEntry("productos_bajo_stock", NoRaise(productos_bajo_stock(stock_df)),
                   "productos_rotacion_lenta")
    /\ UNCHANGED <<Files, stock_df, ventas_df, historico_df, dashboard_block>>

Openai_productos_rotacion_lenta ==
    /\ pc = "productos_rotacion_lenta"
    /\ LET out == productos_rotacion_lenta(ventas_df, historico_df, stock_df, UmbralDefault)
       IN  /\ OpenaiEntry("productos_rotacion_lenta", out, "productos_muertos")
           /\ stock_df' = FrameAfterSetItem(stock_df, SkusIn(out), "media_diaria")
    /\ UNCHANGED <<Files, ventas_df, historico_df, dashboard_block>>

Openai_productos_muertos ==
    /\ pc = "productos_muertos"
    /\ OpenaiEntry("productos_muertos",
                   productos_muertos(ventas_df, stock_df, UmbralDiasDefault),
                   "top_5_mas_vendidos_mes")
    /\ UNCHANGED <<Files, stock_df, ventas_df, historico_df, dashboard_block>>

Openai_top_5_mas_vendidos_mes ==
    /\ pc = "top_5_mas_vendidos_mes"
    /\ \E out \in top_n_vendidos_mes(ventas_df, stock_df, 5) :
          /\ OpenaiEntry("top_5_mas_vendidos_mes", out, "estimaciones_velocidad_venta")
          /\ stock_df' = FrameAfterSetItem(stock_df, SkusIn(out), "total_vendido_mes")
    /\ UNCHANGED <<Files, ventas_df, historico_df, dashboard_block>>

Openai_estimaciones_velocidad_venta ==
    /\ pc = "estimaciones_velocidad_venta"
    /\ OpenaiEntry("estimaciones_velocidad_venta",
                   NoRaise(estimaciones_velocidad_venta(ventas_df, stock_df)),
                   "promedios_unidades_vendidas")
    /\ UNCHANGED <<Files, stock_df, ventas_df, historico_df, dashboard_block>>

Openai_promedios_unidades_vendidas ==
    /\ pc = "promedios_unidades_vendidas"
    /\ OpenaiEntry("promedios_unidades_vendidas",
                   NoRaise(promedios_unidades_vendidas(ventas_df)), "metricas_globales")
    /\ UNCHANGED <<Files, stock_df, ventas_df, historico_df, dashboard_block>>

Openai_metricas_globales ==
    /\ pc = "metricas_globales"
    /\ OpenaiEntry("metricas_globales",
                   NoRaise(metricas_globales(stock_df, ventas_df, historico_df)),
                   "eventos_detectados")
    /\ UNCHANGED <<Files, stock_df, ventas_df, historico_df, dashboard_block>>

Openai_eventos_detectados ==
    /\ pc = "eventos_detectados"
    /\ OpenaiEntry("eventos_detectados", NoRaise(eventos_detectados(historico_df)),
                   "alerta_stock_bajo")
    /\ UNCHANGED <<Files, stock_df, ventas_df, historico_df, dashboard_block>>

\* the list comprehension over productos_bajo_stock(stock_df)
alerta_stock_bajo(stock) ==
    LET bajos == productos_bajo_stock(stock)
    IN  [i \in DOMAIN bajos |->
            [nombre |-> bajos[i].Producto, sku |-> bajos[i].SKU,
             stock_restante |-> bajos[i].Stock]]

Dashboard_alerta_stock_bajo ==
    /\ pc = "alerta_stock_bajo"
    /\ DashboardEntry("alerta_stock_bajo", NoRaise(alerta_stock_bajo(stock_df)),
                      "resumen_global")
    /\ UNCHANGED <<Files, stock_df, ventas_df, historico_df, openai_block>>

Dashboard_resumen_global ==
    /\ pc = "resumen_global"
    /\ DashboardEntry("resumen_global",
                      NoRaise(resumen_global_dashboard(stock_df, ventas_df, historico_df)),
                      "top_3_mas_vendidos")
    /\ UNCHANGED <<Files, stock_df, ventas_df, historico_df, openai_block>>

Dashboard_top_3_mas_vendidos ==
    /\ pc = "top_3_mas_vendidos"
    /\ \E out \in top_3_vendidos_dashboard(ventas_df, stock_df) :
          DashboardEntry("top_3_mas_vendidos", out, "fecha_ultimo_analisis")
    /\ UNCHANGED <<Files, stock_df, ventas_df, historico_df, openai_block>>

Dashboard_fecha_ultimo_analisis ==
    /\ pc = "fecha_ultimo_analisis"
    /\ DashboardEntry("fecha_ultimo_analisis",
                      NoRaise(fecha_ultimo_analisis(ventas_df, historico_df)), "respond")
    /\ UNCHANGED <<Files, stock_df, ventas_df, historico_df, openai_block>>

\* return JSONResponse(content={"openai": ..., "dashboard": ...})
Respond ==
    /\ pc = "respond"
    /\ pc' = "done"
    /\ ret' = [fn |-> "procesar_todos", at |-> pc,
               out |-> NoRaise([openai |-> openai_block, dashboard |-> dashboard_block])]
    /\ UNCHANGED <<Files, stock_df, ventas_df, historico_df, openai_block, dashboard_block>>

\* uploaded files: the expected header, the header reordered, or a column short
StockFileRows == {[SKU |-> 1, Producto |-> "a", Stock |-> 0, Umbral |-> 1],
                  [SKU |-> 2, Producto |-> "b", Stock |-> 2, Umbral |-> 1]}

VentasFileRows == [Fecha : {<<2024, 1, 15>>}, SKU : {1, 2}, Unidades_Vendidas : {0, 3}]

HistoricoFileRows == {[Fecha |-> <<2024, 2, 29>>, SKU |-> 1, Stock |-> 0, Reposicion |-> 1],
                      [Fecha |-> <<2024, 3, 1>>, SKU |-> 1, Stock |-> 1, Reposicion |-> 0]}

BadHeaders(cols) ==
    {SubSeq(cols, 1, Len(cols) - 1), <<cols[2], cols[1]>> \o SubSeq(cols, 3, Len(cols))}

UploadedFiles(cols, rows, n) ==
    {[columns |-> cols, rows |-> r] : r \in SeqsUpTo(rows, n)}
        \cup {[columns |-> c, rows |-> <<>>] : c \in BadHeaders(cols)}

Init ==
    /\ stock_file \in UploadedFiles(ExpectedStockCols, StockFileRows, MaxStockRows)
    /\ ventas_file \in UploadedFiles(ExpectedVentasCols, VentasFileRows, MaxVentasRows)
    /\ historico_file \in UploadedFiles(ExpectedHistoricoCols, HistoricoFileRows, MaxHistRows)
    /\ stock_df = <<>>
    /\ ventas_df = <<>>
    /\ historico_df = <<>>
    /\ pc = "read_stock"
    /\ openai_block = EmptyDict
    /\ dashboard_block = EmptyDict
    /\ ret = NoRet

Next ==
    \/ ReadStock
    \/ ReadVentas
    \/ ReadHistorico
    \/ Openai_productos_bajo_stock
    \/ Openai_productos_rotacion_lenta
    \/ Openai_productos_muertos
    \/ Openai_top_5_mas_vendidos_mes
    \/ Openai_estimaciones_velocidad_venta
    \/ Openai_promedios_unidades_vendidas
    \/ Openai_metricas_globales
    \/ Openai_eventos_detectados
    \/ Dashboard_alerta_stock_bajo
    \/ Dashboard_resumen_global
    \/ Dashboard_top_3_mas_vendidos
    \/ Dashboard_fecha_ultimo_analisis
    \/ Respond

Spec == Init /\ [][Next]_vars

---------------------------------------------------------------------------
\* Properties of the engine functions

UniqueSkus(stock) ==
    \A i, j \in DOMAIN stock : i # j => stock[i].SKU # stock[j].SKU

Returned(fn) == pc = "returned" /\ ret.fn = fn

\* total Unidades_Vendidas of the rows of df at the indices I
RECURSIVE UnitsAt(_, _)
UnitsAt(df, I) ==
    IF I = {} THEN 0
    ELSE LET i == CHOOSE i \in I : TRUE
         IN  df[i].Unidades_Vendidas + UnitsAt(df, I \ {i})

\* total Unidades_Vendidas of a SKU over all of df
UnitsOf(df, sku) == UnitsAt(df, {i \in DOMAIN df : df[i].SKU = sku})

\* day_span = (max Fecha - min Fecha over all Sales rows) + 1, Sales not empty
DaySpan(ventas) ==
    LET F == {ventas[i].Fecha : i \in DOMAIN ventas}
    IN  (CHOOSE a \in F : \A b \in F : b <= a) - (CHOOSE a \in F : \A b \in F : a <= b) + 1

\* C1: productos_bajo_stock returns a Stock row if and only if it has
\* Stock <= Umbral: every such row is in the output, in as many copies as the
\* table holds, and no row with Stock > Umbral is.
C1_BajoStockIff ==
    Returned("productos_bajo_stock") =>
        /\ \A i \in DOMAIN stock_df :
              (stock_df[i].Stock <= stock_df[i].Umbral)
                  <=> (\E j \in DOMAIN ret.out : ret.out[j] = stock_df[i])
        /\ \A j \in DOMAIN ret.out : \E i \in DOMAIN stock_df : ret.out[j] = stock_df[i]
        /\ Len(ret.out)
              = Cardinality({i \in DOMAIN stock_df : stock_df[i].Stock <= stock_df[i].Umbral})

\* a row at the threshold is returned while another above it is left out
C1_Witness ==
    /\ Returned("productos_bajo_stock")
    /\ \E i, j \in DOMAIN stock_df :
          /\ stock_df[i].Stock = stock_df[i].Umbral
          /\ stock_df[j].Stock > stock_df[j].Umbral
          /\ ret.out = <<stock_df[i]>>

\* Stock SKUs never sold, or last sold 14 or more days before the last sale
DeadSkus(ventas, stock) ==
    {sku \in SkusOf(stock) :
        LET F == {ventas[i].Fecha : i \in {k \in DOMAIN ventas : ventas[k].SKU = sku}}
            All == {ventas[i].Fecha : i \in DOMAIN ventas}
        IN  \/ F = {}
            \/ \E last \in F, top \in All :
                  /\ \A f \in F : f <= last
                  /\ \A f \in All : f <= top
                  /\ top - last >= 14}

\* C2: with unique Stock SKUs, the SKUs productos_muertos returns with the
\* default threshold are exactly the Stock SKUs with no sale or whose last
\* sale is 14 or more days before the maximum Fecha of Sales (Sales may be
\* empty).
C2_MuertosExact ==
    (Returned("productos_muertos") /\ UniqueSkus(stock_df)) =>
        /\ ret.out.raised = ""
        /\ SkusOf(ret.out.val) = DeadSkus(ventas_df, stock_df)

\* one SKU last sold exactly 14 days before the last sale is returned and the
\* SKU of the last sale is not
C2_Witness ==
    /\ Returned("productos_muertos")
    /\ UniqueSkus(stock_df)
    /\ Len(stock_df) = 2
    /\ \E i, j \in DOMAIN ventas_df :
          /\ ventas_df[j].Fecha - ventas_df[i].Fecha = 14
          /\ ventas_df[i].SKU # ventas_df[j].SKU
          /\ SkusOf(ret.out.val) = {ventas_df[i].SKU}

\* the row's calendar month and year are those of the maximum Sales Fecha
InMonthOfMax(ventas, r) ==
    \E i \in DOMAIN ventas :
        /\ \A k \in DOMAIN ventas : ventas[k].Fecha <= ventas[i].Fecha
        /\ DateStr(r.Fecha)[1] = DateStr(ventas[i].Fecha)[1]
        /\ DateStr(r.Fecha)[2] = DateStr(ventas[i].Fecha)[2]

MonthTotal(ventas, sku) ==
    UnitsAt(ventas, {i \in DOMAIN ventas :
                        ventas[i].SKU = sku /\ InMonthOfMax(ventas, ventas[i])})

MonthSkus(ventas) ==
    {ventas[i].SKU : i \in {k \in DOMAIN ventas : InMonthOfMax(ventas, ventas[k])}}

\* C3: when Stock holds every Sales SKU and N >= 0, top_n_vendidos_mes
\* returns at most N rows, each of a SKU sold in the month and year of the
\* maximum Sales Fecha, with total_vendido_mes the SKU's units in that month
\* and year, in non-increasing order of total, and no omitted SKU has a
\* strictly larger monthly total than a returned one.
C3_TopNMes ==
    (Returned("top_n_vendidos_mes") /\ SkusOf(ventas_df) \subseteq SkusOf(stock_df)) =>
        /\ ret.out.raised = ""
        /\ Len(ret.out.val) <= ret.n
        /\ \A i \in DOMAIN ret.out.val :
              /\ ret.out.val[i].SKU \in MonthSkus(ventas_df)
              /\ ret.out.val[i].total_vendido_mes
                    = MonthTotal(ventas_df, ret.out.val[i].SKU)
        /\ \A i, j \in DOMAIN ret.out.val :
              i < j => ret.out.val[i].total_vendido_mes >= ret.out.val[j].total_vendido_mes
        /\ \A sku \in MonthSkus(ventas_df) \ SkusOf(ret.out.val) :
              \A i \in DOMAIN ret.out.val :
                  MonthTotal(ventas_df, sku) <= ret.out.val[i].total_vendido_mes

\* the top 1 is asked for, and a sale of the same month one year earlier
\* by another SKU stays out of the ranking
C3_Witness ==
    /\ Returned("top_n_vendidos_mes")
    /\ SkusOf(ventas_df) \subseteq SkusOf(stock_df)
    /\ ret.n = 1
    /\ Len(ret.out.val) = 1
    /\ \E i, j \in DOMAIN ventas_df :
          /\ ventas_df[i].SKU # ventas_df[j].SKU
          /\ DateStr(ventas_df[i].Fecha)[2] = DateStr(ventas_df[j].Fecha)[2]
          /\ DateStr(ventas_df[i].Fecha)[1] < DateStr(ventas_df[j].Fecha)[1]
          /\ ret.out.val[1].SKU = ventas_df[j].SKU

\* C4: with unique Stock SKUs, estimaciones_velocidad_venta has exactly one
\* entry per Stock SKU, keyed by the SKU as a string, whose value is
\* non-negative and is the SKU's total units (0 when absent from Sales)
\* divided by day_span, rounded to 2 decimals.
C4_VelocidadPerStockSku ==
    (Returned("estimaciones_velocidad_venta") /\ UniqueSkus(stock_df)) =>
        /\ DOMAIN ret.out = {SkuStr(sku) : sku \in SkusOf(stock_df)}
        /\ \A sku \in SkusOf(stock_df) :
              /\ ~ret.out[SkuStr(sku)].nan
              /\ ret.out[SkuStr(sku)].num >= 0
              /\ ventas_df # <<>> =>
                    ret.out[SkuStr(sku)]
                        = Round2(Flt(UnitsOf(ventas_df, sku), DaySpan(ventas_df)))

\* Sales SKUs whose daily average is below ratio times the global average:
\* units / span < ratio * total / (skus * span), span > 0 cancelled
SlowSkus(ventas, ratio) ==
    {sku \in SkusOf(ventas) :
        UnitsOf(ventas, sku) * ratio.den * Cardinality(SkusOf(ventas))
            < ratio.num * SumSeq(UnidadesOf(ventas))}

\* C6: when a SKU has rows in Sales but none in Stock, productos_rotacion_lenta
\* does not raise and returns the flagged SKUs that have a Stock row.
C6_RotacionSkipsMissing ==
    (Returned("productos_rotacion_lenta") /\ ~(SkusOf(ventas_df) \subseteq SkusOf(stock_df))) =>
        /\ ret.out.raised = ""
        /\ SkusOf(ret.out.val) = SlowSkus(ventas_df, ret.umbral) \cap SkusOf(stock_df)

\* C9: when Stock holds every Sales SKU, productos_rotacion_lenta flags a
\* Sales SKU if and only if its daily average is below threshold_ratio times
\* the global average; with no sales nothing is flagged and nothing raises; each
\* flagged record is the SKU's first Stock row plus the computed daily average.
C9_RotacionIff ==
    (Returned("productos_rotacion_lenta") /\ SkusOf(ventas_df) \subseteq SkusOf(stock_df)) =>
        /\ ret.out.raised = ""
        /\ ventas_df = <<>> => ret.out.val = <<>>
        /\ SkusOf(ret.out.val) = SlowSkus(ventas_df, ret.umbral)
        /\ Len(ret.out.val) = Cardinality(SlowSkus(ventas_df, ret.umbral))
        /\ \A i \in DOMAIN ret.out.val :
              LET sku == ret.out.val[i].SKU
                  first == CHOOSE k \in DOMAIN stock_df :
                              /\ stock_df[k].SKU = sku
                              /\ \A m \in 1..(k - 1) : stock_df[m].SKU # sku
              IN  /\ ret.out.val[i].media_diaria
                        = Flt(UnitsOf(ventas_df, sku), DaySpan(ventas_df))
                  /\ \A f \in DOMAIN stock_df[first] : ret.out.val[i][f] = stock_df[first][f]

\* with the default ratio and sales on two dates, one of two sold SKUs is
\* flagged and the other is not
C9_Witness ==
    /\ Returned("productos_rotacion_lenta")
    /\ SkusOf(ventas_df) \subseteq SkusOf(stock_df)
    /\ ret.umbral = UmbralDefault
    /\ Len(ret.out.val) = 1
    /\ Cardinality(SkusOf(ventas_df)) = 2
    /\ DaySpan(ventas_df) > 1

\* a row's events as the claim lists them
RowEvents(row) ==
    LET e(t) == [tipo |-> t, SKU |-> row.SKU, fecha |-> DateStr(row.Fecha)]
    IN  CASE row.Stock = 0 /\ row.Reposicion = 1 -> <<e("rotura_stock"), e("reposicion")>>
          [] row.Stock = 0 /\ row.Reposicion # 1 -> <<e("rotura_stock")>>
          [] row.Stock # 0 /\ row.Reposicion = 1 -> <<e("reposicion")>>
          [] OTHER -> <<>>

RECURSIVE ConcatUpTo(_, _)
ConcatUpTo(historico, k) ==
    IF k = 0 THEN <<>> ELSE ConcatUpTo(historico, k - 1) \o RowEvents(historico[k])

CountTipo(events, t) == Cardinality({i \in DOMAIN events : events[i].tipo = t})

\* C5: eventos_detectados returns the concatenation, in History row order, of
\* each row's events (rotura_stock if Stock == 0, then reposicion if
\* Reposicion == 1): as many rotura_stock events as rows with Stock == 0, as
\* many reposicion events as rows with Reposicion == 1.
C5_EventosInOrder ==
    Returned("eventos_detectados") =>
        /\ ret.out = ConcatUpTo(historico_df, Len(historico_df))
        /\ CountTipo(ret.out, "rotura_stock")
              = Cardinality({i \in DOMAIN historico_df : historico_df[i].Stock = 0})
        /\ CountTipo(ret.out, "reposicion")
              = Cardinality({i \in DOMAIN historico_df : historico_df[i].Reposicion = 1})

\* a row with Stock == 0 and Reposicion == 1 gave two events, after those of
\* an earlier row
C5_Witness ==
    /\ Returned("eventos_detectados")
    /\ Len(historico_df) = 2
    /\ historico_df[1].Reposicion = 1 /\ historico_df[1].Stock # 0
    /\ historico_df[2].Stock = 0 /\ historico_df[2].Reposicion = 1
    /\ historico_df[2].Fecha < historico_df[1].Fecha
    /\ Len(ret.out) = 3

\* C8: with an empty Sales table, top_n_vendidos_mes returns an empty
\* sequence, promedios_unidades_vendidas an empty map, and
\* fecha_ultimo_analisis the maximum History Fecha, or the empty string when
\* History is empty too; none raises.
C8_EmptySales ==
    (pc = "returned" /\ ventas_df = <<>>) =>
        /\ ret.fn = "top_n_vendidos_mes" => ret.out = NoRaise(<<>>)
        /\ ret.fn = "promedios_unidades_vendidas" => DOMAIN ret.out = {}
        /\ ret.fn = "fecha_ultimo_analisis" =>
              IF historico_df = <<>> THEN ret.out = EmptyStr
              ELSE \E i \in DOMAIN historico_df :
                      /\ \A k \in DOMAIN historico_df :
                            historico_df[k].Fecha <= historico_df[i].Fecha
                      /\ ret.out = DateStr(historico_df[i].Fecha)

\* no sales, and the date of the later of two History rows comes back
C8_Witness ==
    /\ Returned("fecha_ultimo_analisis")
    /\ ventas_df = <<>>
    /\ Len(historico_df) = 2
    /\ historico_df[1].Fecha > historico_df[2].Fecha
    /\ ret.out = <<2024, 2, 29>>

---------------------------------------------------------------------------
\* Properties of procesar_todos

FailedAtRead == pc = "failed" /\ ret.at \in ReadPcs

\* C7: a request ends either in a validation failure raised while reading the
\* three files, before any metric is computed, or in a complete response with
\* the openai and the dashboard block; no request whose files pass column
\* validation fails.
C7_ValidationOrComplete ==
    /\ pc = "failed" =>
          /\ ret.at \in ReadPcs
          /\ ret.out.raised = "ValueError"
          /\ openai_block = EmptyDict /\ dashboard_block = EmptyDict
    /\ pc = "done" =>
          /\ ret.out.raised = ""
          /\ DOMAIN ret.out.val = {"openai", "dashboard"}

===========================================================================
